---- MODULE Spec2Model ----
(***************************************************************************)
(* Provider registry and chat-completion orchestrator of untangle-api.     *)
(*                                                                         *)
(* The registry is a JavaScript Map from provider id to adapter; a Map     *)
(* iterates in key insertion order, so it is modelled as a sequence of     *)
(* entries.  Every adapter owns one ProviderConfig whose enabled flag and  *)
(* models array are mutated in place by the registry.                      *)
(***************************************************************************)
EXTENDS Integers, Sequences, FiniteSets, TLC

\* ------------------------------------------------------------------ bounds
\* most ModelConfig objects the registered adapters hold together
MaxModels == 2

\* ------------------------------------------------------------- value sets
\* JavaScript undefined where a string or boolean is expected (an absent
\* alias, the value of a call of a void method)
Undefined == "undefined"
\* JavaScript undefined where an object is expected (no adapter, no model)
None == [undefined |-> TRUE]

\* provider ids that get registered, and one that never is
ProviderIds == {"A", "B"}
ProviderArgs == ProviderIds \cup {"Z"}

\* model identifiers used as arguments; "u" names no model
ModelArgs == {"x", "y", "u"}

ModelConfig(id, alias, enabled) == [id |-> id, alias |-> alias, enabled |-> enabled]

\* model configurations that adapters and a discovery refresh supply (the
\* disabled ones come from the add route and from the toggles); the alias of
\* the second one is the id of the first
ModelPool ==
    { ModelConfig("x", Undefined, TRUE),
      ModelConfig("y", "x", TRUE) }

\* the model lists handed to register, updateModels and addModels: every
\* list of at most two pool models
InputLists == {<<>>} \cup { <<a>> : a \in ModelPool } \cup { <<a, b>> : a, b \in ModelPool }

\* JavaScript truthiness of a return value
Truthy(v) == v = "true"

\* ------------------------------------------------------------------ state
VARIABLES
    adapters,   \* ProviderRegistry.adapters: Map in insertion order, as a
                \* sequence of adapters [id, enabled, models]
    regOrder,   \* history: provider ids in the order they were first registered
    last,       \* the last operation performed on the registry
    req,        \* the chat-completion request in flight and where its handler is
    usage,      \* the calls of usageTracker.recordUsage, in order
    strm,       \* the stream callback's read loop: upstream, buffer, events written
    call,       \* the last call of an adapter operation: its input and its result
    keys        \* the key store and the key-management requests in flight

vars == <<adapters, regOrder, last, req, usage, strm, call, keys>>

\* last: op the operation, p its provider argument, ret its return value,
\* grew the number of entries it added (to the Map for register, to the
\* provider's models for addModels), status the HTTP status of the route that
\* made the call (0 for a direct call)
NoOp == [op |-> "none", p |-> "", ret |-> Undefined, grew |-> 0, status |-> 0]

\* number of ModelConfig objects held by the adapters of a registry
RECURSIVE Held(_)
Held(reg) == IF reg = <<>> THEN 0 ELSE Len(Head(reg).models) + Held(Tail(reg))

\* ------------------------------------------------- BaseProviderAdapter
\* supportsModel that forgets the model's own enabled flag
supportsModel_anyFlag(adapter, modelId) ==
    \E i \in 1..Len(adapter.models) :
        adapter.models[i].id = modelId \/ adapter.models[i].alias = modelId

\* supportsModel: some enabled model whose id or alias is modelId
supportsModel(adapter, modelId) ==
    \E i \in 1..Len(adapter.models) :
        /\ adapter.models[i].enabled
        /\ (adapter.models[i].id = modelId \/ adapter.models[i].alias = modelId)

\* getModelConfig: the first enabled model whose id or alias is modelId
getModelConfig(adapter, modelId) ==
    LET hits == { i \in 1..Len(adapter.models) :
                    /\ adapter.models[i].enabled
                    /\ (adapter.models[i].id = modelId
                        \/ adapter.models[i].alias = modelId) }
    IN IF hits = {} THEN None
       ELSE adapter.models[CHOOSE i \in hits : \A j \in hits : i <= j]

\* ---------------------------------------------------- ProviderRegistry
\* position of provider id in the Map, 0 when absent
KeyIndex(reg, providerId) ==
    LET hits == { i \in 1..Len(reg) : reg[i].id = providerId }
    IN IF hits = {} THEN 0 ELSE CHOOSE i \in hits : TRUE

\* register that pushes onto a list without looking for the id
register_push(reg, adapter) == Append(reg, adapter)

\* register: Map.set keeps the slot of an existing key and replaces its value
register(reg, adapter) ==
    LET k == KeyIndex(reg, adapter.id)
    IN IF k = 0 THEN Append(reg, adapter) ELSE [reg EXCEPT ![k] = adapter]

\* get: direct lookup, ignores the enabled flag
get(reg, providerId) ==
    LET k == KeyIndex(reg, providerId)
    IN IF k = 0 THEN None ELSE reg[k]

\* setProviderEnabled: flips the flag in place; false when the id is unknown
setProviderEnabled(reg, providerId, enabled) ==
    LET k == KeyIndex(reg, providerId)
    IN IF k = 0 THEN [reg |-> reg, ret |-> "false"]
       ELSE [reg |-> [reg EXCEPT ![k].enabled = enabled], ret |-> "true"]

\* updateModels: wholesale replacement of the models array; declared void
updateModels(reg, providerId, models) ==
    LET k == KeyIndex(reg, providerId)
    IN IF k = 0 THEN [reg |-> reg, ret |-> Undefined]
       ELSE [reg |-> [reg EXCEPT ![k].models = models], ret |-> Undefined]

\* the loop of addModels: existingIds is computed once, before the loop
RECURSIVE PushNew(_, _, _)
PushNew(existing, existingIds, models) ==
    IF models = <<>> THEN existing
    ELSE PushNew(IF Head(models).id \in existingIds THEN existing
                 ELSE Append(existing, Head(models)),
                 existingIds, Tail(models))

\* addModels that also treats the aliases in the list as taken ids
addModels_aliasDedup(reg, providerId, models) ==
    LET k == KeyIndex(reg, providerId)
    IN IF k = 0 THEN [reg |-> reg, ret |-> Undefined]
       ELSE LET existing == reg[k].models
                existingIds == ({ existing[i].id : i \in 1..Len(existing) }
                                  \cup { existing[i].alias : i \in 1..Len(existing) })
                               \ {Undefined}
            IN [reg |-> [reg EXCEPT ![k].models =
                            PushNew(existing, existingIds,
                                    SelectSeq(models, LAMBDA m : m.alias \notin existingIds))],
                ret |-> Undefined]

\* addModels: appends the models whose id is not in the list; declared void
addModels(reg, providerId, models) ==
    LET k == KeyIndex(reg, providerId)
    IN IF k = 0 THEN [reg |-> reg, ret |-> Undefined]
       ELSE LET existing == reg[k].models
                existingIds == { existing[i].id : i \in 1..Len(existing) }
            IN [reg |-> [reg EXCEPT ![k].models = PushNew(existing, existingIds, models)],
                ret |-> Undefined]

\* Array.find of setModelEnabled: index of the first model matched by id or
\* alias (enabled or not), 0 when none
FindModel(models, modelId) ==
    LET hits == { i \in 1..Len(models) :
                    models[i].id = modelId \/ models[i].alias = modelId }
    IN IF hits = {} THEN 0 ELSE CHOOSE i \in hits : \A j \in hits : i <= j

\* setModelEnabled that falls back to the first model when none matches
setModelEnabled_fallback(reg, providerId, modelId, enabled) ==
    LET k == KeyIndex(reg, providerId)
    IN IF k = 0 THEN [reg |-> reg, ret |-> "false"]
       ELSE LET i == FindModel(reg[k].models, modelId)
            IN IF Len(reg[k].models) = 0 THEN [reg |-> reg, ret |-> "false"]
               ELSE [reg |-> [reg EXCEPT ![k].models[IF i = 0 THEN 1 ELSE i].enabled = enabled],
                     ret |-> "true"]

\* setModelEnabled: false when the provider or the model is not found
setModelEnabled(reg, providerId, modelId, enabled) ==
    LET k == KeyIndex(reg, providerId)
    IN IF k = 0 THEN [reg |-> reg, ret |-> "false"]
       ELSE LET i == FindModel(reg[k].models, modelId)
            IN IF i = 0 THEN [reg |-> reg, ret |-> "false"]
               ELSE [reg |-> [reg EXCEPT ![k].models[i].enabled = enabled],
                     ret |-> "true"]

\* getForModel that keeps the last match instead of returning at the first
getForModel_lastMatch(reg, modelId) ==
    LET hits == { i \in 1..Len(reg) : reg[i].enabled /\ supportsModel(reg[i], modelId) }
    IN IF hits = {} THEN None
       ELSE reg[CHOOSE i \in hits : \A j \in hits : i >= j]

\* getForModel: first adapter in Map order that is enabled and supports modelId
getForModel(reg, modelId) ==
    LET hits == { i \in 1..Len(reg) : reg[i].enabled /\ supportsModel(reg[i], modelId) }
    IN IF hits = {} THEN None
       ELSE reg[CHOOSE i \in hits : \A j \in hits : i <= j]

\* the config an adapter exposes
Config(adapter) == [id |-> adapter.id, enabled |-> adapter.enabled, models |-> adapter.models]

\* list: configs of the enabled adapters, in Map order
list(reg) ==
    LET F[i \in 0..Len(reg)] ==
            IF i = 0 THEN <<>>
            ELSE IF reg[i].enabled THEN Append(F[i - 1], Config(reg[i])) ELSE F[i - 1]
    IN F[Len(reg)]

\* the outcome of a call: the value returned, or the error thrown
Returns(v) == [threw |-> "none", value |-> v]
Throws(e) == [threw |-> e, value |-> <<>>]

\* the class ProviderRegistry defines no listAll member although the interface
\* it implements declares one: a call of registry.listAll() raises a TypeError
listAll(reg) == Throws("TypeError")

\* listModels that does not skip the disabled providers
listModels_allProviders(reg) ==
    LET Inner(pi) ==
            LET ms == reg[pi].models
                G[j \in 0..Len(ms)] ==
                    IF j = 0 THEN <<>>
                    ELSE IF ms[j].enabled
                         THEN Append(G[j - 1], [model |-> ms[j], provider |-> Config(reg[pi]),
                                               pi |-> pi, mi |-> j])
                         ELSE G[j - 1]
            IN G[Len(ms)]
        F[i \in 0..Len(reg)] ==
            IF i = 0 THEN <<>> ELSE F[i - 1] \o Inner(i)
    IN F[Len(reg)]

\* listModels: for each enabled adapter in Map order, its enabled models in
\* list order; pi and mi are the positions of the provider and of the model
listModels(reg) ==
    LET Inner(pi) ==
            LET ms == reg[pi].models
                G[j \in 0..Len(ms)] ==
                    IF j = 0 THEN <<>>
                    ELSE IF ms[j].enabled
                         THEN Append(G[j - 1], [model |-> ms[j], provider |-> Config(reg[pi]),
                                               pi |-> pi, mi |-> j])
                         ELSE G[j - 1]
            IN G[Len(ms)]
        F[i \in 0..Len(reg)] ==
            IF i = 0 THEN <<>>
            ELSE IF ~reg[i].enabled THEN F[i - 1] ELSE F[i - 1] \o Inner(i)
    IN F[Len(reg)]

\* GET /v1/models: the catalog entry published for each listModels() pair
V1Models(reg) ==
    LET lm == listModels(reg)
    IN [i \in 1..Len(lm) |->
          [id |-> IF lm[i].model.alias # Undefined THEN lm[i].model.alias ELSE lm[i].model.id,
           owned_by |-> lm[i].provider.id]]

\* ModelDiscovery.toModelConfig: a discovered model [id, name] becomes a
\* ModelConfig whose alias is the name when it differs from the id
toModelConfig(model, enabled) ==
    ModelConfig(model.id,
                IF model.name # model.id THEN model.name ELSE Undefined,
                enabled)

\* discovered models a client posts to the add route
DiscoveredPool == { [id |-> "x", name |-> "x"], [id |-> "y", name |-> "x"] }
DiscoveredLists ==
    {<<>>} \cup { <<a>> : a \in DiscoveredPool } \cup { <<a, b>> : a, b \in DiscoveredPool }

\* the registries the model explores
WithinBounds(reg) == Held(reg) <= MaxModels

Registered(reg, providerId) == KeyIndex(reg, providerId) # 0

ModelsOf(reg, providerId) ==
    IF Registered(reg, providerId) THEN get(reg, providerId).models ELSE <<>>

\* no chat request has arrived
NoResponse == [status |-> 0, type |-> "", code |-> "", message |-> ""]
NoBody == [kind |-> "none"]
NoStream == [pc |-> "none"]
NoCall == [op |-> "none"]
NoKeys == [impl |-> "none"]

IdleReq == [pc |-> "idle", body |-> NoBody, modelId |-> "", providerId |-> "",
            log |-> <<>>, upstream |-> 0, resp |-> NoResponse,
            err |-> [kind |-> "none", text |-> ""],
            nativeId |-> "", sentModel |-> ""]

Init ==
    /\ adapters = <<>>
    /\ regOrder = <<>>
    /\ last = NoOp
    /\ req = IdleReq
    /\ usage = <<>>
    /\ strm = NoStream
    /\ call = NoCall
    /\ keys = NoKeys

\* registry.register(adapter), as done at start-up
Register ==
    \E p \in ProviderIds, en \in BOOLEAN, ms \in InputLists :
        \E reg \in {register(adapters, [id |-> p, enabled |-> en, models |-> ms])} :
           /\ WithinBounds(reg)
           /\ adapters' = reg
           /\ regOrder' = IF Registered(adapters, p) THEN regOrder ELSE Append(regOrder, p)
           /\ last' = [NoOp EXCEPT !.op = "register", !.p = p,
                                   !.grew = Len(reg) - Len(adapters)]
           /\ UNCHANGED <<req, usage, strm, call, keys>>

\* direct calls of the registry's mutation operations
UpdateModels ==
    \E p \in ProviderArgs, ms \in InputLists :
        \E r \in {updateModels(adapters, p, ms)} :
           /\ WithinBounds(r.reg)
           /\ adapters' = r.reg
           /\ last' = [NoOp EXCEPT !.op = "updateModels", !.p = p, !.ret = r.ret]
           /\ UNCHANGED <<regOrder, req, usage, strm, call, keys>>

AddModels ==
    \E p \in ProviderArgs, ms \in InputLists :
        \E r \in {addModels(adapters, p, ms)} :
           /\ WithinBounds(r.reg)
           /\ adapters' = r.reg
           /\ last' = [NoOp EXCEPT !.op = "addModels", !.p = p, !.ret = r.ret,
                          !.grew = Len(ModelsOf(r.reg, p)) - Len(ModelsOf(adapters, p))]
           /\ UNCHANGED <<regOrder, req, usage, strm, call, keys>>

\* POST /api/providers/:providerId/toggle
PostProviderToggle ==
    \E p \in ProviderArgs, body \in {"invalid", "true", "false"} :
        IF body = "invalid"
        THEN /\ last' = [NoOp EXCEPT !.op = "badRequest", !.status = 400]
             /\ UNCHANGED <<adapters, regOrder, req, usage, strm, call, keys>>
        ELSE \E r \in {setProviderEnabled(adapters, p, body = "true")} :
                /\ adapters' = r.reg
                /\ last' = [NoOp EXCEPT !.op = "setProviderEnabled", !.p = p, !.ret = r.ret,
                               !.status = IF ~Truthy(r.ret) THEN 404 ELSE 200]
                /\ UNCHANGED <<regOrder, req, usage, strm, call, keys>>

\* POST /api/models/:providerId/toggle
PostModelToggle ==
    \E p \in ProviderArgs, m \in ModelArgs, body \in {"invalid", "true", "false"} :
        IF body = "invalid"
        THEN /\ last' = [NoOp EXCEPT !.op = "badRequest", !.status = 400]
             /\ UNCHANGED <<adapters, regOrder, req, usage, strm, call, keys>>
        ELSE \E r \in {setModelEnabled(adapters, p, m, body = "true")} :
                /\ adapters' = r.reg
                /\ last' = [NoOp EXCEPT !.op = "setModelEnabled", !.p = p, !.ret = r.ret,
                               !.status = IF ~Truthy(r.ret) THEN 404 ELSE 200]
                /\ UNCHANGED <<regOrder, req, usage, strm, call, keys>>

\* POST /api/models/:providerId/add
PostModelsAdd ==
    \E p \in ProviderArgs :
        \/ /\ last' = [NoOp EXCEPT !.op = "badRequest", !.status = 400]
           /\ UNCHANGED <<adapters, regOrder, req, usage, strm, call, keys>>
        \/ \E ds \in DiscoveredLists :
            \E r \in {addModels(adapters, p,
                                [i \in 1..Len(ds) |-> toModelConfig(ds[i], FALSE)])} :
               /\ WithinBounds(r.reg)
               /\ adapters' = r.reg
               /\ last' = [NoOp EXCEPT !.op = "addModels", !.p = p, !.ret = r.ret,
                              !.grew = Len(ModelsOf(r.reg, p)) - Len(ModelsOf(adapters, p)),
                              !.status = IF ~Truthy(r.ret) THEN 404 ELSE 200]
               /\ UNCHANGED <<regOrder, req, usage, strm, call, keys>>

Next ==
    \/ Register
    \/ UpdateModels
    \/ AddModels
    \/ PostProviderToggle
    \/ PostModelToggle
    \/ PostModelsAdd

Spec == Init /\ [][Next]_vars

\* ------------------------------------------------- POST /v1/chat/completions
Null == "null"

\* request bodies: what c.req.json() is given
Models == [type : {"undefined", "number"}, value : {""}]
            \cup [type : {"string"}, value : {"", "x", "y", "u"}]
MessageKinds == {"message", "null", "primitive", "noRole"}
Messages == {[isArray |-> FALSE, items |-> <<>>]}
              \cup {[isArray |-> TRUE, items |-> is] :
                      is \in {<<>>, <<"message">>, <<"null">>, <<"primitive">>,
                              <<"noRole">>, <<"message", "noRole">>}}
Bodies == {[kind |-> k] : k \in {"unparsable", "null", "primitive"}}
            \cup [kind : {"object"}, model : Models, messages : Messages,
                  stream : {"true", "false", Undefined}]

\* const rawBody = await c.req.json().catch(() => null)
ParseBody(body) == IF body.kind = "unparsable" THEN [kind |-> "null"] ELSE body

isValidChatRequest_modelOnly(body) ==
    /\ body.kind = "object"
    /\ body.model.type = "string" /\ body.model.value # ""

isValidChatRequest(body) ==
    IF body.kind # "object" THEN FALSE
    ELSE IF body.model.type # "string" \/ body.model.value = "" THEN FALSE
    ELSE IF ~body.messages.isArray THEN FALSE
    ELSE \A i \in 1..Len(body.messages.items) : body.messages.items[i] = "message"

\* !apiKey
KeyMissing_undefinedOnly(apiKey) == apiKey = Undefined

KeyMissing(apiKey) == apiKey \in {Undefined, ""}

toHttpErrorStatus_collapseAll(status) ==
    IF status \in {400, 401, 403, 404, 408, 409, 422, 429, 500, 502, 503, 504}
    THEN status
    ELSE 502

toHttpErrorStatus(status) ==
    IF status \in {400, 401, 403, 404, 408, 409, 422, 429, 500, 502, 503, 504}
    THEN status
    ELSE IF status >= 400 /\ status < 500 THEN 400 ELSE 502

\* the unified-error responses of the handler
InvalidBody ==
    [status |-> 400, type |-> "invalid_request_error", code |-> "invalid_body",
     message |-> "Invalid request body. Expected { model: string, messages: OpenAIMessage[] }"]

ModelNotFound(model) ==
    [status |-> 404, type |-> "invalid_request_error", code |-> "model_not_found",
     message |-> "Model not found: " \o model]

MissingApiKey(providerId) ==
    [status |-> 401, type |-> "authentication_error", code |-> "missing_api_key",
     message |-> "No API key configured for provider: " \o providerId]

UpstreamError(status) ==
    [status |-> toHttpErrorStatus(status), type |-> "api_error", code |-> Null,
     message |-> "upstream"]

InternalError ==
    [status |-> 500, type |-> "internal_error", code |-> Null, message |-> "internal"]

Completed == [status |-> 200, type |-> "chat.completion", code |-> "", message |-> ""]

Streamed(outcome) == [status |-> 200, type |-> "event-stream", code |-> "", message |-> outcome]

Event(ev, arg) == [ev |-> ev, arg |-> arg]

\* String(error)
StringOf(error) ==
    CASE error.kind = "Error" -> "Error: " \o error.text
      [] error.kind = "string" -> error.text
      [] error.kind = "null" -> "null"
      [] error.kind = "undefined" -> "undefined"
      [] error.kind = "object" -> "[object Object]"

\* usageTracker.recordUsage(providerId, modelId, inputTokens, outputTokens,
\* latencyMs, success, error); the latency is left out
recordUsage(records, providerId, modelId, inputTokens, outputTokens, success, error) ==
    Append(records, [providerId |-> providerId, modelId |-> modelId,
                     inputTokens |-> inputTokens, outputTokens |-> outputTokens,
                     success |-> success, error |-> error])

\* the values thrown inside the handler: an Error and a thrown string
NoError == [kind |-> "none", text |-> ""]
Thrown == {[kind |-> "Error", text |-> "fetch failed"], [kind |-> "string", text |-> "oops"]}

\* the outer catch that records the failure whatever is known of the request
Caught_always(records, providerId, modelId, err) ==
    recordUsage(records, providerId, modelId, 0, 0, FALSE, StringOf(err))

\* the outer catch of the handler: records only when providerId and modelId
\* are both non-empty
Caught(records, providerId, modelId, err) ==
    IF providerId # "" /\ modelId # ""
    THEN recordUsage(records, providerId, modelId, 0, 0, FALSE, StringOf(err))
    ELSE records

\* what ctx.getApiKey resolves to, and the statuses an upstream answers with
ApiKeys == {"sk-1", "", Undefined}
UpstreamStatuses == {304, 401, 418, 429, 503, 599}

\* the model id the Anthropic and Google adapters put in the native request:
\* getModelConfig(requested)?.id ?? requested (AnthropicAdapter.transformRequest,
\* GoogleAdapter.resolveModelId)
resolveModelId(adapter, requested) ==
    LET modelConfig == getModelConfig(adapter, requested)
    IN IF modelConfig = None THEN requested ELSE modelConfig.id

\* the registries a chat request can meet: both providers registered at start-up
ChatRegistries ==
    { reg \in { register(register(<<>>, [id |-> "A", enabled |-> ea, models |-> ma]),
                         [id |-> "B", enabled |-> eb, models |-> mb]) :
                  ea \in BOOLEAN, eb \in BOOLEAN, ma \in InputLists, mb \in InputLists } :
        WithinBounds(reg) }

ChatInit ==
    /\ adapters \in ChatRegistries
    /\ regOrder = <<"A", "B">>
    /\ last = NoOp
    /\ req = IdleReq
    /\ usage = <<>>
    /\ strm = NoStream
    /\ call = NoCall
    /\ keys = NoKeys

\* lines 72-94: parse, validate, resolve the adapter, start the credential
\* lookup; nativeId remembers the native id of the model that matched
Receive ==
    /\ req.pc = "idle"
    /\ \E body \in Bodies :
        \E rawBody \in {ParseBody(body)} :
          IF ~isValidChatRequest(rawBody)
          THEN req' = [req EXCEPT !.pc = "done", !.body = body,
                          !.log = <<Event("validate", "rejected")>>,
                          !.resp = InvalidBody]
          ELSE \E adapter \in {getForModel(adapters, rawBody.model.value)} :
                 IF adapter = None
                 THEN req' = [req EXCEPT !.pc = "done", !.body = body,
                                 !.modelId = rawBody.model.value,
                                 !.log = <<Event("validate", "ok"),
                                           Event("getForModel", Undefined)>>,
                                 !.resp = ModelNotFound(rawBody.model.value)]
                 ELSE req' = [req EXCEPT !.pc = "awaitKey", !.body = body,
                                 !.modelId = rawBody.model.value,
                                 !.providerId = adapter.id,
                                 !.nativeId = getModelConfig(adapter, rawBody.model.value).id,
                                 !.log = <<Event("validate", "ok"),
                                           Event("getForModel", adapter.id),
                                           Event("getApiKey", adapter.id)>>]
    /\ UNCHANGED <<adapters, regOrder, last, usage, strm, call, keys>>

\* lines 85 and 239-250: registry.getForModel throws (an adapter whose
\* supportsModel throws); modelId is set, providerId is still ''
ResolveThrows ==
    /\ req.pc = "idle"
    /\ \E body \in Bodies, err \in Thrown :
          /\ isValidChatRequest(ParseBody(body))
          /\ req' = [req EXCEPT !.pc = "done", !.body = body,
                                !.modelId = body.model.value,
                                !.log = <<Event("validate", "ok"),
                                          Event("getForModel", "threw")>>,
                                !.resp = InternalError, !.err = err]
          /\ usage' = Caught(usage, "", body.model.value, err)
    /\ UNCHANGED <<adapters, regOrder, last, strm, call, keys>>

\* lines 94-119 and 211: the credential lookup settles; the request is prepared
\* and fetch is called, inside the stream callback when body.stream is truthy
KeyReturns ==
    /\ req.pc = "awaitKey"
    /\ \/ \E err \in Thrown :
          /\ req' = [req EXCEPT !.pc = "done",
                        !.log = Append(req.log, Event("apiKey", "threw")),
                        !.resp = InternalError, !.err = err]
          /\ usage' = Caught(usage, req.providerId, req.modelId, err)
       \/ \E apiKey \in ApiKeys :
            IF KeyMissing(apiKey)
            THEN /\ req' = [req EXCEPT !.pc = "done",
                               !.log = Append(req.log, Event("apiKey", apiKey)),
                               !.resp = MissingApiKey(req.providerId)]
                 /\ UNCHANGED usage
            ELSE \/ \E err \in Thrown :
                    /\ req' = [req EXCEPT !.pc = "done",
                                  !.log = Append(req.log, Event("apiKey", apiKey)),
                                  !.resp = InternalError, !.err = err]
                    /\ usage' = Caught(usage, req.providerId, req.modelId, err)
                 \/ /\ req' = [req EXCEPT
                                  !.pc = IF Truthy(req.body.stream)
                                         THEN "awaitStream" ELSE "awaitUpstream",
                                  !.log = req.log \o <<Event("apiKey", apiKey),
                                                       Event("fetch", req.providerId)>>,
                                  !.sentModel = resolveModelId(get(adapters, req.providerId),
                                                               req.modelId)]
                    /\ UNCHANGED usage
    /\ UNCHANGED <<adapters, regOrder, last, strm, call, keys>>

\* lines 211-250: the non-streaming upstream call settles
UpstreamResponds ==
    /\ req.pc = "awaitUpstream"
    /\ \/ \E outputTokens \in {0, 1} :
          /\ req' = [req EXCEPT !.pc = "done", !.upstream = 200, !.resp = Completed]
          /\ usage' = recordUsage(usage, req.providerId, req.modelId, 1, outputTokens,
                                  TRUE, Undefined)
       \/ \E status \in UpstreamStatuses :
          /\ req' = [req EXCEPT !.pc = "done", !.upstream = status,
                                !.resp = UpstreamError(status)]
          /\ usage' = recordUsage(usage, req.providerId, req.modelId, 0, 0, FALSE, "upstream")
       \/ \E err \in Thrown, status \in {0, 200} :
          /\ req' = [req EXCEPT !.pc = "done", !.upstream = status,
                                !.resp = InternalError, !.err = err]
          /\ usage' = Caught(usage, req.providerId, req.modelId, err)
    /\ UNCHANGED <<adapters, regOrder, last, strm, call, keys>>

\* lines 119-206: the stream callback runs to its end.  streamWriter.write
\* rejects once the client is gone; a write that rejects inside the try block
\* is caught at line 200, and the write of line 202 then rejects before the
\* recordUsage of line 205 is reached.
StreamResponds ==
    /\ req.pc = "awaitStream"
    /\ \/ \E outputTokens \in {0, 1} :
          /\ req' = [req EXCEPT !.pc = "done", !.upstream = 200, !.resp = Streamed("done")]
          /\ usage' = recordUsage(usage, req.providerId, req.modelId, 1, outputTokens,
                                  TRUE, Undefined)
       \/ \E status \in UpstreamStatuses :
          /\ req' = [req EXCEPT !.pc = "done", !.upstream = status,
                                !.resp = Streamed("error")]
          /\ usage' = recordUsage(usage, req.providerId, req.modelId, 0, 0, FALSE, "upstream")
       \/ \E err \in Thrown :
          /\ req' = [req EXCEPT !.pc = "done", !.resp = Streamed("error"), !.err = err]
          /\ usage' = recordUsage(usage, req.providerId, req.modelId, 0, 0, FALSE,
                                  StringOf(err))
       \/ \E status \in UpstreamStatuses \cup {200} :
          /\ req' = [req EXCEPT !.pc = "done", !.upstream = status,
                                !.resp = Streamed("write failed")]
          /\ UNCHANGED usage
    /\ UNCHANGED <<adapters, regOrder, last, strm, call, keys>>

\* the toggle routes, served before the chat request arrives and while it is
\* in flight (the handler reads the registry no more once it has answered)
ProviderToggled ==
    /\ req.pc # "done"
    /\ \E p \in ProviderIds, enabled \in BOOLEAN :
         adapters' = setProviderEnabled(adapters, p, enabled).reg
    /\ adapters' # adapters
    /\ UNCHANGED <<regOrder, last, req, usage, strm, call, keys>>

ModelToggled ==
    /\ req.pc # "done"
    /\ \E p \in ProviderIds, m \in ModelArgs, enabled \in BOOLEAN :
         adapters' = setModelEnabled(adapters, p, m, enabled).reg
    /\ adapters' # adapters
    /\ UNCHANGED <<regOrder, last, req, usage, strm, call, keys>>

\* a discovery refresh replaces a provider's models (updateModels) while the
\* chat request is in flight
ModelsUpdated ==
    /\ req.pc # "done"
    /\ \E p \in ProviderIds, ms \in InputLists :
         /\ adapters' = updateModels(adapters, p, ms).reg
         /\ WithinBounds(adapters')
    /\ adapters' # adapters
    /\ UNCHANGED <<regOrder, last, req, usage, strm, call, keys>>

ChatNext ==
    \/ Receive
    \/ ResolveThrows
    \/ KeyReturns
    \/ UpstreamResponds
    \/ StreamResponds
    \/ ProviderToggled
    \/ ModelToggled
    \/ ModelsUpdated

ChatSpec == ChatInit /\ [][ChatNext]_vars

\* ------------------------------------------ the stream callback's read loop
MaxBlocks == 2

\* An upstream stream is a sequence of lines and line feeds.  The lines:
\*   "dD"  data: [DONE]
\*   "dT"  data: <event carrying the text delta "Hi">
\*   "dS"  data: <the provider's end-of-message event>
\*   "dH"  data: <well-formed JSON event carrying neither text nor an end>
\*   "c"   a line that does not start with data: (event: ..., : comment)
\*   "rT"  the text-delta event as a bare JSON line, without the data: prefix
\* A line ending is a line feed, or a carriage return followed by a line feed.
NL == "\n"
CR == "\r"
DataLines == {"dD", "dT", "dS", "dH"}
Providers == {"openai", "anthropic", "google"}

\* the text of a line after its data: prefix, line.slice(5).trimStart(), or the
\* whole text of a line without the prefix; a carriage return left at the end
\* of the line is part of the text
TextOf(line) ==
    LET text == IF line = <<>> \/ line[1] = CR THEN ""
                ELSE CASE line[1] = "dD" -> "[DONE]"
                       [] line[1] \in {"dT", "rT"} -> "T"
                       [] line[1] = "dS" -> "S"
                       [] line[1] = "dH" -> "H"
                       [] line[1] = "c" -> "c"
    IN IF line # <<>> /\ line[Len(line)] = CR THEN text \o CR ELSE text

NoChunk == [content |-> Undefined, finish_reason |-> Undefined]

\* JSON.parse of a payload: the event it denotes, or "" when it is not JSON.
\* White space around a JSON text is allowed; two JSON texts, [DONE] and a
\* comment line are not JSON.
JsonParse(data) ==
    LET texts == SelectSeq(data, LAMBDA t : t \notin {"", CR})
    IN IF Len(texts) = 1 /\ texts[1] \in {"T", "S", "H", "T" \o CR, "S" \o CR, "H" \o CR}
       THEN CASE texts[1] \in {"T", "T" \o CR} -> "T"
              [] texts[1] \in {"S", "S" \o CR} -> "S"
              [] texts[1] \in {"H", "H" \o CR} -> "H"
       ELSE ""

\* transformStreamChunk of the built-in adapters; the payload is the sequence
\* of its lines
transformStreamChunk(provider, data) ==
    IF data = <<"[DONE]">> /\ provider # "google" THEN NoChunk
    ELSE IF JsonParse(data) = "" THEN NoChunk
    ELSE IF JsonParse(data) = "T" THEN [content |-> "Hi", finish_reason |-> Null]
    ELSE IF JsonParse(data) = "S" THEN [content |-> Undefined, finish_reason |-> "stop"]
    ELSE IF provider = "openai" THEN [content |-> Undefined, finish_reason |-> Null]
    ELSE NoChunk

\* the length of a chunk's delta content
ContentLength(content) == IF content = "Hi" THEN 2 ELSE 0

\* Math.ceil(n / 4)
CeilDiv4(n) == (n + 3) \div 4

RECURSIVE TrimStart(_)
TrimStart(block) ==
    IF block # <<>> /\ Head(block) \in {NL, CR} THEN TrimStart(Tail(block)) ELSE block

RECURSIVE TrimEnd(_)
TrimEnd(block) ==
    IF block # <<>> /\ block[Len(block)] \in {NL, CR}
    THEN TrimEnd(SubSeq(block, 1, Len(block) - 1)) ELSE block

Trim(block) == TrimEnd(TrimStart(block))

\* text.split('\n')
RECURSIVE SplitLines(_)
SplitLines(text) ==
    IF \E i \in 1..Len(text) : text[i] = NL
    THEN LET i == CHOOSE i \in 1..Len(text) :
                    text[i] = NL /\ \A j \in 1..(i - 1) : text[j] # NL
         IN <<SubSeq(text, 1, i - 1)>> \o SplitLines(SubSeq(text, i + 1, Len(text)))
    ELSE <<text>>

\* chunk.replace(/\r\n/g, '\n')
RECURSIVE ReplaceCRLF(_)
ReplaceCRLF(chunk) ==
    IF chunk = <<>> THEN <<>>
    ELSE IF Len(chunk) >= 2 /\ chunk[1] = CR /\ chunk[2] = NL
    THEN <<NL>> \o ReplaceCRLF(SubSeq(chunk, 3, Len(chunk)))
    ELSE <<chunk[1]>> \o ReplaceCRLF(Tail(chunk))

\* parseSseEventData: the payloads of a block, none or one; a payload is the
\* sequence of the lines that join('\n') puts together
parseSseEventData(eventBlock) ==
    LET lines == SelectSeq(SplitLines(eventBlock),
                           LAMBDA line : line # <<>> /\ line[1] \in DataLines)
        dataLines == [i \in 1..Len(lines) |-> TextOf(lines[i])]
        trimmed == SplitLines(Trim(eventBlock))
        fallback == [i \in 1..Len(trimmed) |-> TextOf(trimmed[i])]
    IN IF Len(dataLines) > 0 THEN <<dataLines>>
       ELSE IF Len(Trim(eventBlock)) > 0 THEN <<fallback>> ELSE <<>>

\* sseBuffer.indexOf('\n\n'), 0 when there is none
EventBoundary(buffer) ==
    IF \E i \in 1..(Len(buffer) - 1) : buffer[i] = NL /\ buffer[i + 1] = NL
    THEN CHOOSE i \in 1..(Len(buffer) - 1) :
            /\ buffer[i] = NL /\ buffer[i + 1] = NL
            /\ \A j \in 1..(i - 1) : ~(buffer[j] = NL /\ buffer[j + 1] = NL)
    ELSE 0

DoneEvent == [done |-> TRUE, chunk |-> NoChunk]
ChunkEvent(chunk) == [done |-> FALSE, chunk |-> chunk]

\* lines 161-176: one payload of a delimited block
LoopBlock(provider, st, payloads) ==
    IF payloads = <<>> THEN st
    ELSE IF payloads[1] = <<"[DONE]">>
    THEN [st EXCEPT !.written = Append(st.written, DoneEvent)]
    ELSE \* chunk = adapter.transformStreamChunk(data, body)
         LET chunk == transformStreamChunk(provider, payloads[1])
             seen == [st EXCEPT !.transformed = Append(st.transformed, payloads[1])]
         IN IF chunk = NoChunk THEN seen
            ELSE [seen EXCEPT
                    !.written = Append(st.written, ChunkEvent(chunk)),
                    !.totalOutputTokens =
                        IF ContentLength(chunk.content) > 0
                        THEN st.totalOutputTokens + CeilDiv4(ContentLength(chunk.content))
                        ELSE st.totalOutputTokens]

\* lines 184-191: one payload of the trailing block
TrailingBlock(provider, st, payloads) ==
    IF payloads = <<>> THEN st
    ELSE IF payloads[1] # <<"[DONE]">>
    THEN LET chunk == transformStreamChunk(provider, payloads[1])
             seen == [st EXCEPT !.transformed = Append(st.transformed, payloads[1])]
         IN IF chunk # NoChunk
            THEN [seen EXCEPT !.written = Append(st.written, ChunkEvent(chunk))]
            ELSE seen
    ELSE st

\* lines 156-179: take the delimited blocks out of the buffer
RECURSIVE Drain(_, _)
Drain(provider, st) ==
    LET eventBoundary == EventBoundary(st.sseBuffer)
    IN IF eventBoundary = 0 THEN st
       ELSE LET block == SubSeq(st.sseBuffer, 1, eventBoundary - 1)
                rest == SubSeq(st.sseBuffer, eventBoundary + 2, Len(st.sseBuffer))
            IN Drain(provider,
                     LoopBlock(provider, [st EXCEPT !.sseBuffer = rest],
                               parseSseEventData(block)))

\* lines 182-192: the buffer left when the upstream closes
Flush(provider, st) ==
    IF Len(Trim(st.sseBuffer)) > 0
    THEN TrailingBlock(provider, st, parseSseEventData(st.sseBuffer))
    ELSE st

\* the event blocks an upstream sends and the streams made of up to MaxBlocks
\* of them, closed after the final separator, without it, or after one line feed
Blocks == {<<"dT">>, <<"dD">>, <<"dS">>, <<"dH">>, <<"c">>, <<"rT">>,
           <<"c", NL, "dT">>, <<"dT", NL, "dT">>}

RECURSIVE Delimited(_)
Delimited(n) ==
    IF n = 0 THEN {<<>>}
    ELSE Delimited(n - 1)
           \cup { s \o b \o <<NL, NL>> : s \in Delimited(n - 1), b \in Blocks }

\* every line feed written as carriage return, line feed
RECURSIVE WithCRLF(_)
WithCRLF(text) ==
    IF text = <<>> THEN <<>>
    ELSE (IF text[1] = NL THEN <<CR, NL>> ELSE <<text[1]>>) \o WithCRLF(Tail(text))

LFUpstreams ==
    Delimited(MaxBlocks)
      \cup { SubSeq(s, 1, Len(s) - 2) : s \in Delimited(MaxBlocks) \ {<<>>} }
      \cup { SubSeq(s, 1, Len(s) - 1) : s \in Delimited(MaxBlocks) \ {<<>>} }

Upstreams == LFUpstreams \cup { WithCRLF(s) : s \in Delimited(MaxBlocks) }

StreamInit ==
    /\ adapters = <<>>
    /\ regOrder = <<>>
    /\ last = NoOp
    /\ req = IdleReq
    /\ usage = <<>>
    /\ call = NoCall
    /\ keys = NoKeys
    /\ strm \in { [pc |-> "reading", provider |-> provider, src |-> upstream,
                   rest |-> upstream, sseBuffer |-> <<>>, written |-> <<>>,
                   transformed |-> <<>>, totalOutputTokens |-> 0, reported |-> 0,
                   client |-> "connected", reader |-> "open"] :
                    provider \in Providers, upstream \in Upstreams }

\* the callback after a step that took st0 to st1: with the client gone the
\* first streamWriter.write rejects, control passes to the catch at line 200
\* and the callback ends; the reader is neither cancelled nor released
AfterWrites(st0, st1) ==
    IF st0.client = "gone" /\ st1.written # st0.written
    THEN [st0 EXCEPT !.pc = "failed"]
    ELSE st1

\* lines 151-179: reader.read() returns some bytes; they are decoded, appended
\* to the buffer and the delimited blocks are processed
ReadChunk ==
    /\ strm.pc = "reading"
    /\ \E n \in 1..2 :
        /\ n <= Len(strm.rest)
        /\ strm' = AfterWrites(
                     strm,
                     Drain(strm.provider,
                           [strm EXCEPT !.rest = SubSeq(strm.rest, n + 1, Len(strm.rest)),
                                        !.sseBuffer = strm.sseBuffer
                                            \o ReplaceCRLF(SubSeq(strm.rest, 1, n))]))
    /\ UNCHANGED <<adapters, regOrder, last, req, usage, call, keys>>

\* lines 152 and 182-198: reader.read() reports done; the trailing block is
\* handled and the token total is passed to recordUsage
ReadDone ==
    /\ strm.pc = "reading"
    /\ strm.rest = <<>>
    /\ \E st \in {Flush(strm.provider, strm)} :
        strm' = AfterWrites([strm EXCEPT !.reader = "done"],
                            [st EXCEPT !.pc = "closed", !.reader = "done",
                                       !.reported = st.totalOutputTokens])
    /\ UNCHANGED <<adapters, regOrder, last, req, usage, call, keys>>

\* the client closes the connection while the response is being streamed
ClientDisconnects ==
    /\ strm.pc = "reading"
    /\ strm.client = "connected"
    /\ strm' = [strm EXCEPT !.client = "gone"]
    /\ UNCHANGED <<adapters, regOrder, last, req, usage, call, keys>>

StreamNext ==
    \/ ReadChunk
    \/ ReadDone
    \/ ClientDisconnects

StreamSpec == StreamInit /\ [][StreamNext]_vars

\* ------------------------------------------------- the adapters' operations
AdapterKinds == {"openai", "groq", "openrouter", "anthropic", "google"}

\* the value of the `error` property of an error object
NoErrorProp == [kind |-> "undefined", message |-> Undefined, type |-> Undefined,
                code |-> Undefined, status |-> Undefined]
ErrorProps ==
    [kind : {"object"}, message : {Undefined, "", "m"}, type : {Undefined, "t"},
     code : {Undefined, Null, "c"}, status : {Undefined, "s"}]
      \cup { [NoErrorProp EXCEPT !.kind = k] : k \in {"undefined", "null", "string"} }

\* the values handed to normalizeError: an Error, a string, null, undefined and
\* objects with or without an `error` property and a `message` property
ErrorValues ==
    { [kind |-> k, text |-> "boom", hasError |-> FALSE, error |-> NoErrorProp,
       message |-> Undefined] : k \in {"Error", "string"} }
      \cup { [kind |-> k, text |-> "", hasError |-> FALSE, error |-> NoErrorProp,
              message |-> Undefined] : k \in {"null", "undefined"} }
      \cup { [kind |-> "object", text |-> "", hasError |-> FALSE, error |-> NoErrorProp,
              message |-> m] : m \in {Undefined, "top"} }
      \cup { [kind |-> "object", text |-> "", hasError |-> TRUE, error |-> e,
              message |-> m] : e \in ErrorProps, m \in {Undefined, "top"} }

UnifiedError(message, type, code) == [message |-> message, type |-> type, code |-> code]

\* a ?? b
Coalesce(a, b) == IF a \in {Undefined, Null} THEN b ELSE a

\* a || b
OrElse(a, b) == IF a \in {Undefined, Null, ""} THEN b ELSE a

\* BaseProviderAdapter.normalizeError
BaseNormalizeError(error) ==
    IF error.kind = "Error"
    THEN Returns(UnifiedError(error.text, "api_error", Null))
    ELSE Returns(UnifiedError(StringOf(error), "unknown_error", Null))

UnknownErrorOf(adapter) ==
    CASE adapter = "openai" -> "Unknown error"
      [] adapter = "groq" -> "Unknown Groq error"
      [] adapter = "anthropic" -> "Unknown Anthropic error"
      [] adapter = "google" -> "Unknown Google AI error"

\* normalizeError of the built-in adapters; reading a property of null or
\* undefined raises a TypeError, reading one of a string gives undefined
normalizeError(adapter, error) ==
    IF adapter # "openrouter" /\ error.kind = "object" /\ error.hasError
    THEN IF error.error.kind \in {"null", "undefined"} THEN Throws("TypeError")
         ELSE LET e == error.error
              IN Returns(UnifiedError(
                    Coalesce(e.message, UnknownErrorOf(adapter)),
                    Coalesce(IF adapter = "google" THEN e.status ELSE e.type, "api_error"),
                    IF adapter \in {"openai", "groq"} THEN Coalesce(e.code, Null) ELSE Null))
    ELSE BaseNormalizeError(error)

\* chat.ts 223-224: the error body of the non-streaming path;
\* errorBody.error?.message || errorBody.message || 'Unknown error'
UpstreamErrorBody(errorBody) ==
    IF errorBody.kind \in {"null", "undefined"} THEN Throws("TypeError")
    ELSE Returns(UnifiedError(
            OrElse(IF errorBody.kind = "object" /\ errorBody.hasError
                      /\ errorBody.error.kind = "object"
                   THEN errorBody.error.message ELSE Undefined,
                   OrElse(IF errorBody.kind = "object" THEN errorBody.message
                          ELSE Undefined,
                          "Unknown error")),
            "api_error", Null))

\* what readUpstreamError resolves to: a parsed JSON body, or the text of the
\* body wrapped as {error: {message: text}}
UpstreamErrors == { e \in ErrorValues : e.kind \in {"object", "null", "string"} }

AdapterInit ==
    /\ adapters = <<>>
    /\ regOrder = <<>>
    /\ last = NoOp
    /\ req = IdleReq
    /\ usage = <<>>
    /\ strm = NoStream
    /\ call = NoCall
    /\ keys = NoKeys

\* adapter.normalizeError(error)
NormalizeError ==
    /\ call = NoCall
    /\ \E adapter \in AdapterKinds, error \in ErrorValues :
         call' = [op |-> "normalizeError", adapter |-> adapter, input |-> error,
                  out |-> normalizeError(adapter, error)]
    /\ UNCHANGED <<adapters, regOrder, last, req, usage, strm, keys>>

\* chat.ts 217-226: the non-streaming path answers a non-ok upstream
RelayUpstreamError ==
    /\ call = NoCall
    /\ \E adapter \in AdapterKinds, errorBody \in UpstreamErrors :
         call' = [op |-> "upstreamError", adapter |-> adapter, input |-> errorBody,
                  out |-> UpstreamErrorBody(errorBody)]
    /\ UNCHANGED <<adapters, regOrder, last, req, usage, strm, keys>>

\* the terminal-state reasons a provider response carries, absent ones included
StopReasons == {Null, Undefined, "", "end_turn", "stop_sequence", "max_tokens",
                "tool_use", "STOP", "MAX_TOKENS", "SAFETY"}

\* AnthropicAdapter.mapStopReason
mapStopReason(reason) ==
    IF reason \in {Null, Undefined, ""} THEN Null
    ELSE IF reason = "end_turn" \/ reason = "stop_sequence" THEN "stop"
    ELSE IF reason = "max_tokens" THEN "length"
    ELSE "stop"

\* GoogleAdapter.mapFinishReason
mapFinishReason(reason) ==
    IF reason \in {Null, Undefined, ""} THEN Null
    ELSE IF reason = "STOP" THEN "stop"
    ELSE IF reason = "MAX_TOKENS" THEN "length"
    ELSE "stop"

RECURSIVE Join(_, _)
Join(strings, sep) ==
    IF strings = <<>> THEN ""
    ELSE IF Len(strings) = 1 THEN strings[1]
    ELSE strings[1] \o sep \o Join(Tail(strings), sep)

\* provider responses: the text parts of the (first) candidate and its reason
TextParts == {<<>>, <<"a">>, <<"a", "b">>}
ProviderResponses == [texts : TextParts, reason : StopReasons]

\* transformResponse of the Anthropic and Google adapters: the message content
\* and the finish_reason of the single choice
transformResponse(adapter, response) ==
    [content |-> Join(response.texts, ""),
     finish_reason |-> IF adapter = "anthropic" THEN mapStopReason(response.reason)
                       ELSE mapFinishReason(response.reason)]

\* adapter.transformResponse(providerResponse, body)
TransformResponse ==
    /\ call = NoCall
    /\ \E adapter \in {"anthropic", "google"}, response \in ProviderResponses :
         call' = [op |-> "transformResponse", adapter |-> adapter, input |-> response,
                  out |-> transformResponse(adapter, response)]
    /\ UNCHANGED <<adapters, regOrder, last, req, usage, strm, keys>>

\* unified requests: up to MaxMessages messages
MaxMessages == 3
UnifiedMessages ==
    [role : {"system", "user", "assistant", "tool"}, content : {"a", "b"}]
      \cup {[role |-> "assistant", content |-> Null], [role |-> "system", content |-> ""]}

RECURSIVE MessageLists(_)
MessageLists(n) ==
    IF n = 0 THEN {<<>>}
    ELSE MessageLists(n - 1)
           \cup { Append(ms, m) : ms \in MessageLists(n - 1), m \in UnifiedMessages }

\* Array.prototype.join writes null and undefined as the empty string
JoinContents(messages, sep) ==
    Join([i \in 1..Len(messages) |->
            IF messages[i].content \in {Null, Undefined} THEN "" ELSE messages[i].content],
         sep)

transformRequest_firstSystem(adapter, request) ==
    LET systemMessages == SelectSeq(request.messages, LAMBDA m : m.role = "system")
        others == SelectSeq(request.messages, LAMBDA m : m.role # "system")
    IN [system |-> IF systemMessages = <<>> THEN Undefined ELSE systemMessages[1].content,
        messages |-> [i \in 1..Len(others) |->
                        [role |-> IF others[i].role = "assistant"
                                  THEN (IF adapter = "anthropic" THEN "assistant" ELSE "model")
                                  ELSE "user",
                         content |-> Coalesce(others[i].content, "")]]]

\* transformRequest of the Anthropic and Google adapters: the top-level system
\* text (Anthropic: system, Google: systemInstruction.parts[0].text) and the
\* converted messages (Anthropic: messages, Google: contents with parts[0].text)
transformRequest(adapter, request) ==
    LET systemMessages == SelectSeq(request.messages, LAMBDA m : m.role = "system")
        others == SelectSeq(request.messages, LAMBDA m : m.role # "system")
    IN [system |-> IF adapter = "anthropic"
                   THEN OrElse(JoinContents(systemMessages, "\n"), Undefined)
                   ELSE IF Len(systemMessages) > 0
                        THEN JoinContents(systemMessages, "\n") ELSE Undefined,
        messages |-> [i \in 1..Len(others) |->
                        [role |-> IF others[i].role = "assistant"
                                  THEN (IF adapter = "anthropic" THEN "assistant" ELSE "model")
                                  ELSE "user",
                         content |-> Coalesce(others[i].content, "")]]]

\* adapter.transformRequest(body); filter and map build new arrays, the request
\* is left as it was
TransformRequest ==
    /\ call = NoCall
    /\ \E adapter \in {"anthropic", "google"}, messages \in MessageLists(MaxMessages) :
         call' = [op |-> "transformRequest", adapter |-> adapter,
                  input |-> [messages |-> messages],
                  out |-> transformRequest(adapter, [messages |-> messages])]
    /\ UNCHANGED <<adapters, regOrder, last, req, usage, strm, keys>>

\* ---------------------------------------------- CustomProviderAdapter
\* the auth part of a CustomProviderDefinition; header, scheme and queryParam
\* are optional
CustomAuths ==
    [type : {"header", "query"}, header : {Undefined, "X-Api-Key"},
     scheme : {Undefined, "Bearer"}, queryParam : {Undefined, "key"}]

\* a URL: the text before the query string and the query parameters
Url(base, query) == [base |-> base, query |-> query]

\* CustomProviderAdapter.getEndpointUrl: base URL plus the chat path; the
\* options argument the orchestrator passes is not a parameter of the override
getEndpointUrl(auth, endpoint) ==
    Url(IF endpoint = "chat" THEN "baseUrl/chat" ELSE "baseUrl", {})

\* CustomProviderAdapter.buildAuthenticatedUrl
buildAuthenticatedUrl(auth, endpoint, apiKey) ==
    LET baseUrl == getEndpointUrl(auth, endpoint)
    IN IF auth.type # "query" THEN baseUrl
       ELSE Url(baseUrl.base, {<<Coalesce(auth.queryParam, "api_key"), apiKey>>})

\* CustomProviderAdapter.getAuthHeaders: a header value is the sequence of
\* its space-separated words
getAuthHeaders(auth, apiKey) ==
    IF auth.type = "header"
    THEN {<<Coalesce(auth.header, "Authorization"),
            IF auth.scheme # Undefined THEN <<auth.scheme, apiKey>> ELSE <<apiKey>>>>}
    ELSE {}

\* chat.ts 101-106: the endpoint URL and the headers of the upstream call
UpstreamCall(auth, apiKey) ==
    [url |-> getEndpointUrl(auth, "chat"),
     headers |-> {<<"Content-Type", <<"application/json">>>>} \cup getAuthHeaders(auth, apiKey)]

PrepareUpstreamCall ==
    /\ call = NoCall
    /\ \E auth \in CustomAuths, apiKey \in {"sk-1", "sk-2"} :
         call' = [op |-> "upstreamCall", adapter |-> "custom",
                  input |-> [auth |-> auth, apiKey |-> apiKey],
                  out |-> UpstreamCall(auth, apiKey)]
    /\ UNCHANGED <<adapters, regOrder, last, req, usage, strm, keys>>

AdapterNext ==
    \/ NormalizeError
    \/ RelayUpstreamError
    \/ TransformResponse
    \/ TransformRequest
    \/ PrepareUpstreamCall

AdapterSpec == AdapterInit /\ [][AdapterNext]_vars

\* ------------------------------------------------------------- key routes
\* routes/keys.ts is written against the interface ProviderRegistry.  The
\* registry handed to createKeysRoutes is either the class of registry.ts
\* ("ProviderRegistry", which has no listAll) or another implementation of
\* the declared interface ("IProviderRegistry", whose listAll returns the
\* configs of all registered providers).
RegistryImpls == {"ProviderRegistry", "IProviderRegistry"}

\* listAll as the interface declares it: every provider, enabled or not
listAll_declared(reg) == Returns([i \in 1..Len(reg) |-> Config(reg[i])])

\* resolveProvider: ctx.registry.listAll().find(provider => provider.id === providerId)
resolveProvider(impl, reg, providerId) ==
    LET all == IF impl = "ProviderRegistry" THEN listAll(reg) ELSE listAll_declared(reg)
    IN IF all.threw # "none" THEN all
       ELSE LET hits == { i \in 1..Len(all.value) : all.value[i].id = providerId }
            IN IF hits = {} THEN Returns(None)
               ELSE Returns(all.value[CHOOSE i \in hits : \A j \in hits : i <= j])

\* the apiKey property of a posted body; "" is a body without a usable key
PostedKeys == {"sk-1", ""}

\* a key-management request: pc is "idle" before the first one, "suspended"
\* while the handler awaits the key store, "done" once it has answered
IdleKeyReq == [pc |-> "idle", p |-> "", apiKey |-> "", status |-> 0, threw |-> "none"]
KeyReqDone(p, apiKey, status, threw) ==
    [pc |-> "done", p |-> p, apiKey |-> apiKey, status |-> status, threw |-> threw]

\* start-up leaves a provider enabled exactly when a key is stored for it;
\* each provider holds at most one model
ShortLists == { ms \in InputLists : Len(ms) <= 1 }

KeyRegistries(store) ==
    { reg \in { register(register(<<>>, [id |-> "A", enabled |-> "A" \in store, models |-> ma]),
                         [id |-> "B", enabled |-> "B" \in store, models |-> mb]) :
                  ma \in ShortLists, mb \in ShortLists } :
        WithinBounds(reg) }

KeysInit ==
    /\ \E store \in SUBSET ProviderIds, impl \in RegistryImpls, managed \in BOOLEAN :
          /\ adapters \in KeyRegistries(store)
          /\ keys = [impl |-> impl, managed |-> managed, store |-> store,
                     post |-> IdleKeyReq, del |-> IdleKeyReq]
    /\ regOrder = <<"A", "B">>
    /\ last = NoOp
    /\ req = IdleReq
    /\ usage = <<>>
    /\ strm = NoStream
    /\ call = NoCall

\* POST /api/keys/:provider up to the suspension in `await ctx.setApiKey(...)`:
\* an exception of resolveProvider leaves the handler (status 500), then 404,
\* 501 and 400 are answered, otherwise the key is stored
PostKey ==
    /\ keys.post.pc # "suspended"
    /\ \E p \in ProviderArgs, apiKey \in PostedKeys :
        LET provider == resolveProvider(keys.impl, adapters, p)
        IN keys' =
            IF provider.threw # "none"
            THEN [keys EXCEPT !.post = KeyReqDone(p, apiKey, 500, provider.threw)]
            ELSE IF provider.value = None
            THEN [keys EXCEPT !.post = KeyReqDone(p, apiKey, 404, "none")]
            ELSE IF ~keys.managed
            THEN [keys EXCEPT !.post = KeyReqDone(p, apiKey, 501, "none")]
            ELSE IF apiKey = ""
            THEN [keys EXCEPT !.post = KeyReqDone(p, apiKey, 400, "none")]
            ELSE [keys EXCEPT !.store = @ \cup {p},
                              !.post = [IdleKeyReq EXCEPT !.pc = "suspended", !.p = p,
                                                          !.apiKey = apiKey]]
    /\ UNCHANGED <<adapters, regOrder, last, req, usage, strm, call>>

\* the rest of the POST handler: setProviderEnabled(providerId, true), 200
PostKeyResumes ==
    /\ keys.post.pc = "suspended"
    /\ adapters' = setProviderEnabled(adapters, keys.post.p, TRUE).reg
    /\ keys' = [keys EXCEPT !.post = KeyReqDone(keys.post.p, keys.post.apiKey, 200, "none")]
    /\ UNCHANGED <<regOrder, last, req, usage, strm, call>>

\* DELETE /api/keys/:provider up to the suspension in `await ctx.removeApiKey(...)`
DeleteKey ==
    /\ keys.del.pc # "suspended"
    /\ \E p \in ProviderArgs :
        LET provider == resolveProvider(keys.impl, adapters, p)
        IN keys' =
            IF provider.threw # "none"
            THEN [keys EXCEPT !.del = KeyReqDone(p, "", 500, provider.threw)]
            ELSE IF provider.value = None
            THEN [keys EXCEPT !.del = KeyReqDone(p, "", 404, "none")]
            ELSE IF ~keys.managed
            THEN [keys EXCEPT !.del = KeyReqDone(p, "", 501, "none")]
            ELSE [keys EXCEPT !.store = @ \ {p},
                              !.del = [IdleKeyReq EXCEPT !.pc = "suspended", !.p = p]]
    /\ UNCHANGED <<adapters, regOrder, last, req, usage, strm, call>>

\* the rest of the DELETE handler: setProviderEnabled(providerId, false), 200
DeleteKeyResumes ==
    /\ keys.del.pc = "suspended"
    /\ adapters' = setProviderEnabled(adapters, keys.del.p, FALSE).reg
    /\ keys' = [keys EXCEPT !.del = KeyReqDone(keys.del.p, "", 200, "none")]
    /\ UNCHANGED <<regOrder, last, req, usage, strm, call>>

\* POST /api/providers/:providerId/toggle while the key routes are served
KeysProviderToggled ==
    /\ keys.impl # "none"
    /\ PostProviderToggle

KeysNext ==
    \/ PostKey
    \/ PostKeyResumes
    \/ DeleteKey
    \/ DeleteKeyResumes
    \/ KeysProviderToggled

KeysSpec == KeysInit /\ [][KeysNext]_vars

\* ---------------------------------------------------------------- claims
Ids(configs) == { configs[i].id : i \in 1..Len(configs) }

\* position of a provider id in the order of first registration
RegPos(providerId) == CHOOSE i \in 1..Len(regOrder) : regOrder[i] = providerId

\* the model lists handed to addModels, directly or by the add route
AddInputs ==
    InputLists \cup { [i \in 1..Len(ds) |-> toModelConfig(ds[i], FALSE)] : ds \in DiscoveredLists }

\* C1: getForModel(m) returns an adapter only if that adapter is registered, its
\* provider flag is enabled and its model list holds an enabled model whose id
\* or alias is m; a disabled model or a model of a disabled provider is never
\* routed to.
C1_RoutedOnlyWhenBothEnabled ==
    \A m \in ModelArgs :
        LET a == getForModel(adapters, m)
        IN a # None =>
            /\ \E k \in 1..Len(adapters) : adapters[k] = a
            /\ a.enabled
            /\ \E i \in 1..Len(a.models) :
                /\ a.models[i].enabled
                /\ (a.models[i].id = m \/ a.models[i].alias = m)

\* a disabled model "x" of an enabled first provider is passed over and "x" is
\* routed to the second provider
C1_Witness ==
    /\ Len(adapters) = 2
    /\ adapters[1].enabled
    /\ \E i \in 1..Len(adapters[1].models) :
        adapters[1].models[i].id = "x" /\ ~adapters[1].models[i].enabled
    /\ getForModel(adapters, "x") = adapters[2]
    /\ last.op = "setModelEnabled"

\* C2: getForModel(m) is the earliest registered of the enabled adapters that
\* support m, and undefined when there is none.
C2_FirstRegisteredWins ==
    \A m \in ModelArgs :
        LET cands == { p \in Ids(adapters) :
                         get(adapters, p).enabled /\ supportsModel(get(adapters, p), m) }
        IN IF cands = {} THEN getForModel(adapters, m) = None
           ELSE LET first == CHOOSE p \in cands : \A q \in cands : RegPos(p) <= RegPos(q)
                IN getForModel(adapters, m) = get(adapters, first)

\* two enabled providers both expose "x"; the one registered first is returned
C2_Witness ==
    /\ regOrder = <<"B", "A">>
    /\ get(adapters, "A").enabled /\ supportsModel(get(adapters, "A"), "x")
    /\ get(adapters, "B").enabled /\ supportsModel(get(adapters, "B"), "x")
    /\ getForModel(adapters, "x").id = "B"

\* C3: listModels() holds exactly the (model, provider) pairs with both flags
\* enabled, each once, ordered by provider registration order and then by
\* position in the provider's list; GET /v1/models publishes one entry for each.
C3_ListModelsExact ==
    LET lm == listModels(adapters)
        cat == V1Models(adapters)
    IN /\ \A k \in 1..Len(lm) :
            /\ lm[k].pi \in 1..Len(adapters)
            /\ lm[k].mi \in 1..Len(adapters[lm[k].pi].models)
            /\ adapters[lm[k].pi].id = regOrder[lm[k].pi]
            /\ lm[k].provider = Config(adapters[lm[k].pi])
            /\ lm[k].model = adapters[lm[k].pi].models[lm[k].mi]
            /\ lm[k].provider.enabled
            /\ lm[k].model.enabled
       /\ \A pi \in 1..Len(adapters) : \A mi \in 1..Len(adapters[pi].models) :
            (adapters[pi].enabled /\ adapters[pi].models[mi].enabled)
                => Cardinality({ k \in 1..Len(lm) : lm[k].pi = pi /\ lm[k].mi = mi }) = 1
       /\ \A k, l \in 1..Len(lm) :
            k < l => \/ lm[k].pi < lm[l].pi
                     \/ lm[k].pi = lm[l].pi /\ lm[k].mi < lm[l].mi
       /\ Len(cat) = Len(lm)
       /\ \A k \in 1..Len(cat) :
            /\ cat[k].owned_by = lm[k].provider.id
            /\ cat[k].id \in {lm[k].model.id, lm[k].model.alias} \ {Undefined}

\* both providers are enabled with one enabled model each; the model of the
\* provider registered first is listed first
C3_Witness ==
    /\ Len(adapters) = 2 /\ regOrder = <<"B", "A">>
    /\ Len(listModels(adapters)) = 2
    /\ listModels(adapters)[1].provider.id = "B"
    /\ listModels(adapters)[2].provider.id = "A"

\* C4: after setProviderEnabled(p, false) on a registered provider, list() does
\* not contain p while listAll() still does; list() is exactly the enabled
\* providers and listAll() exactly the registered ones.
C4_ListAllKeepsDisabled ==
    /\ Ids(list(adapters)) = { p \in Ids(adapters) : get(adapters, p).enabled }
    /\ (last.op = "setProviderEnabled" /\ Truthy(last.ret)
            /\ ~get(adapters, last.p).enabled)
        => /\ last.p \notin Ids(list(adapters))
           /\ listAll(adapters).threw = "none"
           /\ Ids(listAll(adapters).value) = Ids(adapters)

\* C5: the registry holds at most one adapter per provider id; register on an
\* id that is already registered replaces the adapter, get(id) returns the one
\* registered last and the number of providers does not grow.
C5_RegisterReplaces ==
    /\ \A i, j \in 1..Len(adapters) : adapters[i].id = adapters[j].id => i = j
    /\ \A p \in ProviderIds, en \in BOOLEAN, ms \in InputLists :
          LET a == [id |-> p, enabled |-> en, models |-> ms]
              reg == register(adapters, a)
          IN /\ get(reg, p) = a
             /\ Cardinality({ i \in 1..Len(reg) : reg[i].id = p }) = 1
             /\ Len(reg) = Len(adapters) + (IF Registered(adapters, p) THEN 0 ELSE 1)
             /\ \A q \in ProviderIds \ {p} : get(reg, q) = get(adapters, q)

\* a provider was registered a second time while another provider is registered
C5_Witness ==
    /\ last.op = "register" /\ last.grew = 0
    /\ Len(adapters) = 2

\* C6: setModelEnabled with an unregistered provider, or with a model that
\* matches no id or alias of the provider, returns false and changes no flag;
\* setProviderEnabled with an unregistered provider does the same.
C6_FailedToggleChangesNothing ==
    /\ \A p \in ProviderArgs, m \in ModelArgs, en \in BOOLEAN :
          LET ms == ModelsOf(adapters, p)
          IN (\/ ~Registered(adapters, p)
              \/ \A i \in 1..Len(ms) : ms[i].id # m /\ ms[i].alias # m)
             => setModelEnabled(adapters, p, m, en) = [reg |-> adapters, ret |-> "false"]
    /\ \A p \in ProviderArgs, en \in BOOLEAN :
          ~Registered(adapters, p)
             => setProviderEnabled(adapters, p, en) = [reg |-> adapters, ret |-> "false"]

\* a model toggle failed on a registered provider that has models
C6_Witness ==
    /\ last.op = "setModelEnabled"
    /\ last.ret = "false"
    /\ Registered(adapters, last.p)
    /\ Len(ModelsOf(adapters, last.p)) > 0

\* C7: every registry mutation returns a boolean: true when the provider (and
\* the model) exists and the mutation was applied, false when not, and a route
\* answers 404 exactly when the flag is false.
C7_MutationsReturnBoolean ==
    last.op \in {"setProviderEnabled", "updateModels", "addModels", "setModelEnabled"}
        => /\ last.ret \in {"true", "false"}
           /\ last.ret = "true" => Registered(adapters, last.p)
           /\ (last.op # "setModelEnabled" /\ Registered(adapters, last.p))
                => last.ret = "true"
           /\ last.status # 0 => (last.status = 404 <=> last.ret = "false")

\* C8: addModels(p, models) on a registered provider keeps the models already
\* in p's list as they are and appends, in input order, exactly the input
\* models whose id is not in the list (an alias that equals an existing id or
\* alias does not count); no other provider changes.
C8_AddModelsAppendsNewIds ==
    \A p \in Ids(adapters), ms \in AddInputs :
        LET reg == addModels(adapters, p, ms).reg
            old == ModelsOf(adapters, p)
            oldIds == { old[i].id : i \in 1..Len(old) }
        IN /\ ModelsOf(reg, p) = old \o SelectSeq(ms, LAMBDA m : m.id \notin oldIds)
           /\ Len(reg) = Len(adapters)
           /\ \A k \in 1..Len(adapters) :
                /\ reg[k].id = adapters[k].id
                /\ reg[k].enabled = adapters[k].enabled
                /\ adapters[k].id # p => reg[k] = adapters[k]

\* a model whose alias is the id of the model already in the list was appended
C8_Witness ==
    LET l == ModelsOf(adapters, last.p)
    IN /\ last.op = "addModels" /\ last.grew = 1
       /\ Len(l) = 2
       /\ l[2].alias = l[1].id
       /\ Len(adapters) = 2

\* a body the handler must reject: not an object, no non-empty string model,
\* no messages array, or a message that is not an object with a string role
Malformed(body) ==
    \/ body.kind # "object"
    \/ /\ body.kind = "object"
       /\ \/ body.model.type # "string"
          \/ body.model.value = ""
          \/ ~body.messages.isArray
          \/ \E i \in 1..Len(body.messages.items) : body.messages.items[i] # "message"

\* some enabled provider holds an enabled model whose id or alias is m
Routable(m) ==
    \E k \in 1..Len(adapters) :
        /\ adapters[k].enabled
        /\ \E i \in 1..Len(adapters[k].models) :
            /\ adapters[k].models[i].enabled
            /\ (adapters[k].models[i].id = m \/ adapters[k].models[i].alias = m)

Fetches == { i \in 1..Len(req.log) : req.log[i].ev = "fetch" }

\* C9: an upstream call is issued only after, in this order, the body passed
\* validation, getForModel returned an adapter and the credential lookup for
\* that adapter's provider returned a non-empty key; a malformed body causes no
\* registry lookup and no credential lookup, a missing credential causes no
\* upstream call, and a request makes at most one upstream call.
C9_DispatchOrder ==
    /\ Cardinality(Fetches) <= 1
    /\ \A f \in Fetches :
        \E a, b, c, d \in 1..(f - 1) :
            /\ a < b /\ b < c /\ c < d
            /\ req.log[a] = Event("validate", "ok")
            /\ req.log[b].ev = "getForModel" /\ req.log[b].arg \in ProviderIds
            /\ req.log[c] = Event("getApiKey", req.log[b].arg)
            /\ req.log[d].ev = "apiKey" /\ req.log[d].arg \notin {Undefined, "", "threw"}
            /\ req.log[f].arg = req.log[b].arg
    /\ (req.pc # "idle" /\ Malformed(req.body))
        => \A i \in 1..Len(req.log) : req.log[i].ev \notin {"getForModel", "getApiKey", "fetch"}
    /\ (\E i \in 1..Len(req.log) :
            req.log[i].ev = "apiKey" /\ req.log[i].arg \in {Undefined, ""})
        => Fetches = {}
    /\ (req.pc \in {"awaitUpstream", "awaitStream"}
            \/ req.resp.type \in {"chat.completion", "api_error", "event-stream"})
        => Cardinality(Fetches) = 1

\* a non-streaming request went through validation, resolution and the
\* credential lookup, made its upstream call and relayed the upstream's failure
C9_Witness ==
    /\ req.pc = "done"
    /\ Len(req.log) = 5 /\ req.log[5].ev = "fetch"
    /\ req.resp.type = "api_error" /\ req.resp.status = 502

\* C10: the failures before dispatch are decided by the first failing stage:
\* an invalid body is answered 400 with type invalid_request_error; a valid
\* body whose model no enabled provider supports is answered 404 with message
\* "Model not found: <model>", type invalid_request_error and code
\* model_not_found; a resolved provider without a credential is answered 401
\* with type authentication_error and code missing_api_key.  (A registry
\* lookup that throws is no pre-dispatch failure of the request: it is the
\* unexpected exception of C24.)
C10_Step ==
    /\ (req.pc = "idle" /\ req'.pc # "idle"
            /\ req'.log[Len(req'.log)] # Event("getForModel", "threw")) =>
          IF Malformed(req'.body)
          THEN /\ req'.pc = "done"
               /\ req'.resp.status = 400
               /\ req'.resp.type = "invalid_request_error"
          ELSE IF ~Routable(req'.body.model.value)
          THEN /\ req'.pc = "done"
               /\ req'.resp.status = 404
               /\ req'.resp.type = "invalid_request_error"
               /\ req'.resp.code = "model_not_found"
               /\ req'.resp.message = "Model not found: " \o req'.body.model.value
          ELSE /\ req'.pc = "awaitKey"
               /\ req'.resp = NoResponse
    /\ (req.pc = "awaitKey" /\ req'.pc # "awaitKey"
            /\ req'.log[Len(req.log) + 1].ev = "apiKey"
            /\ req'.log[Len(req.log) + 1].arg \in {Undefined, ""}) =>
          /\ req'.pc = "done"
          /\ req'.resp.status = 401
          /\ req'.resp.type = "authentication_error"
          /\ req'.resp.code = "missing_api_key"

C10_PreDispatchErrors == [][C10_Step]_vars

\* the model resolved to a provider whose credential lookup gave the empty
\* string, and the request was answered 401
C10_Witness ==
    /\ req.pc = "done"
    /\ req.log[Len(req.log)] = Event("apiKey", "")
    /\ req.resp = MissingApiKey(req.providerId)
    /\ req.resp.status = 401

Whitelist == {400, 401, 403, 404, 408, 409, 422, 429, 500, 502, 503, 504}

NonStreaming == req.body.kind # "object" \/ ~Truthy(req.body.stream)

\* C12: for every non-streaming chat request, recordUsage has been invoked
\* exactly once by the time the response is returned, on the success path and
\* on every failure path.
C12_UsageExactlyOnce ==
    (req.pc = "done" /\ NonStreaming) => Len(usage) = 1

\* C13: for every streaming chat request that reaches upstream dispatch,
\* exactly one recordUsage call has been made when the stream callback
\* finishes, also when the callback ends on a failed write to a disconnected
\* client.
C13_StreamUsageExactlyOnce ==
    (req.pc = "done" /\ req.resp.type = "event-stream") => Len(usage) = 1

\* the blocks of an upstream stream, the trailing one included
RECURSIVE SrcBlocks(_)
SrcBlocks(src) ==
    IF EventBoundary(src) = 0 THEN <<src>>
    ELSE <<SubSeq(src, 1, EventBoundary(src) - 1)>>
            \o SrcBlocks(SubSeq(src, EventBoundary(src) + 2, Len(src)))

\* the block's payload is the literal [DONE]
IsDoneBlock(block) == SelectSeq(block, LAMBDA l : l \in DataLines) = <<"dD">>

DoneWrites == { i \in 1..Len(strm.written) : strm.written[i].done }

\* C14: for every upstream event whose payload is the literal [DONE], in a
\* delimited block or in the trailing block, exactly one `data: [DONE]` event is
\* written to the client, and transformStreamChunk is never called on [DONE].
C14_DonePassedThrough ==
    strm.pc = "closed" =>
        /\ Cardinality(DoneWrites)
             = Cardinality({ k \in 1..Len(SrcBlocks(ReplaceCRLF(strm.src))) :
                                IsDoneBlock(SrcBlocks(ReplaceCRLF(strm.src))[k]) })
        /\ \A i \in 1..Len(strm.transformed) : strm.transformed[i] # <<"[DONE]">>

\* the whole stream handled by one read and the close
RunAll(provider, upstream) ==
    Flush(provider,
          Drain(provider, [sseBuffer |-> upstream, written |-> <<>>,
                           transformed |-> <<>>, totalOutputTokens |-> 0]))

\* C15: the events written to the client and the output-token total passed to
\* recordUsage are the same whether the upstream closes after the final
\* blank-line separator or without it.
C15_TrailingBlockEquivalent ==
    strm.pc = "closed" =>
        LET delimited == RunAll(strm.provider, TrimEnd(ReplaceCRLF(strm.src)) \o <<NL, NL>>)
        IN /\ strm.written = delimited.written
           /\ strm.reported = delimited.totalOutputTokens

\* a complete stream of the provider: OpenAI-compatible upstreams end with one
\* [DONE] event, Anthropic and Google end with their end-of-message event and
\* send no [DONE]; every block is delimited
CompleteUpstream(provider, src) ==
    LET lines == SelectSeq(src, LAMBDA l : l \in DataLines)
    IN /\ Len(src) >= 2 /\ SubSeq(src, Len(src) - 1, Len(src)) = <<NL, NL>>
       /\ lines # <<>>
       /\ IF provider = "openai"
          THEN /\ lines[Len(lines)] = "dD"
               /\ \A i \in 1..(Len(lines) - 1) : lines[i] # "dD"
               /\ IsDoneBlock(SrcBlocks(src)[Len(SrcBlocks(src)) - 1])
          ELSE /\ lines[Len(lines)] = "dS"
               /\ \A i \in 1..Len(lines) : lines[i] # "dD"

\* C16: a streaming response whose upstream was read to completion ends with
\* `data: [DONE]`, written exactly once with no event after it, for every
\* built-in adapter.
C16_TerminatedByDone ==
    (strm.pc = "closed" /\ CompleteUpstream(strm.provider, ReplaceCRLF(strm.src))) =>
        /\ Cardinality(DoneWrites) = 1
        /\ strm.written[Len(strm.written)] = DoneEvent

\* C17: on the non-streaming path the error body returned for a non-2xx
\* upstream equals the resolved adapter's normalizeError applied to the parsed
\* upstream error: same message, type and code.
C17_ErrorBodyIsNormalized ==
    call.op = "upstreamError" =>
        /\ call.out.threw = "none"
        /\ normalizeError(call.adapter, call.input).threw = "none"
        /\ call.out.value = normalizeError(call.adapter, call.input).value

\* C18: normalizeError of every adapter never throws and returns
\* {error: {message, type, code}} for every input; an input {error: {message,
\* type?, code?}} has its fields mapped through, type defaulting to "api_error"
\* and code to null; any other input yields the stringified input as message
\* with type "unknown_error".
C18_NormalizeErrorTotal ==
    call.op = "normalizeError" =>
        /\ call.out.threw = "none"
        /\ IF /\ call.input.kind = "object" /\ call.input.hasError
              /\ call.input.error.kind = "object"
              /\ call.input.error.message # Undefined
           THEN /\ call.out.value.message = call.input.error.message
                /\ call.out.value.type = Coalesce(call.input.error.type, "api_error")
                /\ call.out.value.code = Coalesce(call.input.error.code, Null)
           ELSE /\ call.out.value.message = StringOf(call.input)
                /\ call.out.value.type = "unknown_error"

\* C19: for the Anthropic and Google adapters the finish_reason of a
\* transformed response is "stop" for the provider's normal-completion reason,
\* "length" for its output-cap reason and "stop" for every other value; it is
\* never null.
C19_FinishReasonNeverNull ==
    call.op = "transformResponse" =>
        LET normal == IF call.adapter = "anthropic" THEN {"end_turn", "stop_sequence"}
                      ELSE {"STOP"}
            cap == IF call.adapter = "anthropic" THEN "max_tokens" ELSE "MAX_TOKENS"
        IN /\ call.input.reason \in normal => call.out.finish_reason = "stop"
           /\ call.input.reason = cap => call.out.finish_reason = "length"
           /\ call.input.reason \notin normal \cup {cap} \cup {Null, Undefined, ""}
                => call.out.finish_reason = "stop"
           /\ call.out.finish_reason # Null

\* the positions of the messages of a request with / without the system role
SystemAt(messages) == { i \in 1..Len(messages) : messages[i].role = "system" }
OtherAt(messages) == { i \in 1..Len(messages) : messages[i].role # "system" }

\* C20: transformRequest of the Anthropic and Google adapters puts the
\* contents of all system messages, joined by newline in their order, into the
\* top-level system field, and maps the other messages one to one in their
\* order (user to user, assistant to the provider's assistant role), dropping,
\* duplicating and reordering none.
C20_SystemExtractedOthersInOrder ==
    call.op = "transformRequest" =>
        LET ms == call.input.messages
            out == call.out
            assistant == IF call.adapter = "anthropic" THEN "assistant" ELSE "model"
            \* pos[k] is the position in the request of the k-th other message
            pos == [k \in 1..Cardinality(OtherAt(ms)) |->
                      CHOOSE i \in OtherAt(ms) :
                         Cardinality({ j \in OtherAt(ms) : j < i }) = k - 1]
            sys == [k \in 1..Cardinality(SystemAt(ms)) |->
                      CHOOSE i \in SystemAt(ms) :
                         Cardinality({ j \in SystemAt(ms) : j < i }) = k - 1]
            joined == JoinContents([k \in 1..Len(sys) |-> ms[sys[k]]], "\n")
        IN /\ Len(out.messages) = Cardinality(OtherAt(ms))
           /\ \A k \in 1..Len(out.messages) :
                /\ out.messages[k].content = Coalesce(ms[pos[k]].content, "")
                /\ ms[pos[k]].role = "user" => out.messages[k].role = "user"
                /\ ms[pos[k]].role = "assistant" => out.messages[k].role = assistant
           /\ SystemAt(ms) = {} => out.system = Undefined
           /\ (SystemAt(ms) # {} /\ joined # "") => out.system = joined
           /\ (SystemAt(ms) # {} /\ joined = "") => out.system \in {"", Undefined}

\* two system messages around a user and an assistant message were joined and
\* the other two kept in order
C20_Witness ==
    /\ call.op = "transformRequest"
    /\ Len(call.input.messages) = 3
    /\ call.input.messages[1].role = "system" /\ call.input.messages[3].role = "system"
    /\ call.input.messages[2].role = "assistant"
    /\ call.out.system = "a\nb"
    /\ Len(call.out.messages) = 1

\* C21: when a write to the client fails during a streaming response, the
\* orchestrator reads no more of the upstream stream and cancels the upstream
\* reader instead of draining it or leaving it open.
C21_ReaderCancelledOnDisconnect ==
    strm.pc = "failed" => strm.reader = "cancelled"

\* the block holds a line that begins with data:
HasDataLine(block) ==
    \E i \in 1..Len(SplitLines(block)) :
        SplitLines(block)[i] # <<>> /\ SplitLines(block)[i][1] \in DataLines

\* C25: the payload handed to transformStreamChunk is made only of the block's
\* data: lines; other lines contribute nothing, and a block without a data:
\* line produces no payload, no adapter call and no client event.
C25_OnlyDataLines ==
    strm.pc = "closed" =>
        LET blocks == SrcBlocks(ReplaceCRLF(strm.src))
            dataBlocks == { k \in 1..Len(blocks) : HasDataLine(blocks[k]) }
        IN /\ Len(strm.transformed)
                = Cardinality({ k \in dataBlocks : ~IsDoneBlock(blocks[k]) })
           /\ \A i \in 1..Len(strm.transformed) : \A j \in 1..Len(strm.transformed[i]) :
                strm.transformed[i][j] \in {"T", "S", "H", "[DONE]"}
           /\ Len(strm.written) <= Cardinality(dataBlocks)

\* C27: the events written to the client do not depend on how the upstream
\* bytes are split into reads, splits between the \r and the \n of a line
\* ending included: they are those of the stream delivered by a single read.
C27_ChunkingIndependent ==
    strm.pc = "closed" =>
        strm.written = RunAll(strm.provider, ReplaceCRLF(strm.src)).written

\* a key request that names a registered provider while runtime key
\* management is configured
Manageable(r) == keys.managed /\ Registered(adapters, r.p)

Enabled(reg, providerId) == Registered(reg, providerId) /\ get(reg, providerId).enabled

\* C22 (key routes): for a registered provider with runtime key management
\* configured, a POST /api/keys/p with a non-empty apiKey is answered 200 and
\* leaves the provider enabled and present in GET /api/providers, and a
\* DELETE /api/keys/p is answered 200 and leaves it disabled and absent there.
C22_Step ==
    /\ (keys'.post # keys.post /\ keys'.post.pc = "done"
           /\ Manageable(keys'.post) /\ keys'.post.apiKey # "")
          => /\ keys'.post.status = 200
             /\ Enabled(adapters', keys'.post.p)
             /\ keys'.post.p \in Ids(list(adapters'))
    /\ (keys'.del # keys.del /\ keys'.del.pc = "done" /\ Manageable(keys'.del))
          => /\ keys'.del.status = 200
             /\ ~Enabled(adapters', keys'.del.p)
             /\ keys'.del.p \notin Ids(list(adapters'))

C22_KeyRoutesSwitchProvider == [][C22_Step]_vars

\* C30: when a POST and a DELETE of /api/keys/p for the same registered
\* provider have both completed, whatever their interleaving, the provider is
\* enabled if and only if a key is stored for it (no other route has touched
\* the provider's flag).
C30_EnabledIffKeyStored ==
    (/\ keys.impl # "none"
     /\ last = NoOp
     /\ keys.post.pc = "done" /\ keys.del.pc = "done"
     /\ keys.post.p = keys.del.p
     /\ Registered(adapters, keys.post.p))
       => (Enabled(adapters, keys.post.p) <=> keys.post.p \in keys.store)

\* the key appears among the query parameters of a URL / in a header value
KeyInUrl(url, apiKey) == \E q \in url.query : q[2] = apiKey
KeyInHeaders(headers, apiKey) ==
    \E h \in headers : \E i \in 1..Len(h[2]) : h[2][i] = apiKey

\* C23: the upstream chat call of a custom provider with query-parameter auth
\* uses the URL of buildAuthenticatedUrl, which carries the API key as the
\* configured query parameter, and no header carries the key; with header
\* auth the configured header carries the key and the URL carries none.
C23_KeyPlacement ==
    call.op = "upstreamCall" =>
        LET auth == call.input.auth
            apiKey == call.input.apiKey
        IN IF auth.type = "query"
           THEN /\ call.out.url = buildAuthenticatedUrl(auth, "chat", apiKey)
                /\ <<Coalesce(auth.queryParam, "api_key"), apiKey>> \in call.out.url.query
                /\ ~KeyInHeaders(call.out.headers, apiKey)
           ELSE /\ \E h \in call.out.headers :
                      /\ h[1] = Coalesce(auth.header, "Authorization")
                      /\ h[2][Len(h[2])] = apiKey
                /\ ~KeyInUrl(call.out.url, apiKey)

\* C24: when an unexpected exception ends the handler with the 500
\* internal_error response, exactly one recordUsage call was made, with zero
\* input tokens, zero output tokens, success = false and String(err), if the
\* provider and the model were known; none was made if the exception came
\* before the provider was resolved.
C24_OuterCatchUsage ==
    (req.pc = "done" /\ req.resp.type = "internal_error") =>
        /\ req.resp.status = 500
        /\ IF req.providerId # "" /\ req.modelId # ""
           THEN usage = <<[providerId |-> req.providerId, modelId |-> req.modelId,
                           inputTokens |-> 0, outputTokens |-> 0, success |-> FALSE,
                           error |-> StringOf(req.err)]>>
           ELSE usage = <<>>

\* the upstream call of a resolved request was rejected with an Error and the
\* failure was recorded once, with the stringified error
C24_Witness ==
    /\ req.pc = "done" /\ req.resp = InternalError
    /\ req.providerId = "A" /\ req.modelId = "x"
    /\ req.log[Len(req.log)].ev = "fetch"
    /\ Len(usage) = 1 /\ usage[1].error = "Error: fetch failed"

\* no provider holds two models with the same native id
DistinctIds(reg) ==
    \A k \in 1..Len(reg) :
        \A i, j \in 1..Len(reg[k].models) :
            reg[k].models[i].id = reg[k].models[j].id => i = j

\* C26: native model ids stay unique within each provider: a call of
\* addModels (whatever its input list, lists that repeat an id included) or
\* of setModelEnabled on a registry whose providers hold pairwise distinct
\* native ids leaves a registry whose providers hold pairwise distinct ids.
C26_Step ==
    (last'.op \in {"addModels", "setModelEnabled"} /\ DistinctIds(adapters))
        => DistinctIds(adapters')

C26_NativeIdsUnique == [][C26_Step]_vars

\* C28: when the requested identifier is an alias, the model id placed in the
\* native request body / endpoint URL of the upstream call is the native id of
\* the model the alias resolved to, whatever setModelEnabled and updateModels
\* calls ran while the handler awaited the credential lookup.
C28_AliasSentAsNativeId ==
    (req.sentModel # "" /\ req.modelId # req.nativeId)
        => req.sentModel = req.nativeId

\* C29: the catalog and the routing agree: getForModel applied to the
\* identifier GET /v1/models publishes for a listModels() entry (its alias if
\* present, else its native id) returns an adapter, and every identifier for
\* which getForModel returns an adapter is the native id or the alias of some
\* listModels() entry.
C29_CatalogAgreesWithRouting ==
    LET lm == listModels(adapters)
        published == V1Models(adapters)
    IN /\ Len(published) = Len(lm)
       /\ \A i \in 1..Len(lm) :
            /\ published[i].id \in {lm[i].model.id, lm[i].model.alias} \ {Undefined}
            /\ getForModel(adapters, published[i].id) # None
       /\ \A m \in ModelArgs :
            getForModel(adapters, m) # None
                => \E i \in 1..Len(lm) : lm[i].model.id = m \/ lm[i].model.alias = m

\* the catalog publishes the alias "x" of an enabled provider's model "y",
\* while a disabled model and a model of a disabled provider are held too
C29_Witness ==
    /\ \E i \in 1..Len(listModels(adapters)) :
          /\ listModels(adapters)[i].model.alias = "x"
          /\ V1Models(adapters)[i].id = "x"
    /\ getForModel(adapters, "x") # None
    /\ getForModel(adapters, "y") # None
    /\ \E k \in 1..Len(adapters) : ~adapters[k].enabled /\ Len(adapters[k].models) > 0

====
